---------------------------- MODULE Spec2Model ----------------------------
(***************************************************************************)
(* GridNavigator (src/src/App.tsx): maze generation by recursive           *)
(* backtracking, breadth-first and depth-first search over the grid, and   *)
(* the timer-driven playback of a search inside the App component.         *)
(*                                                                         *)
(* A grid Cell[][] is a function row -> (col -> type), rows and columns    *)
(* indexed from 0 as in the source.  A Cell's row and col fields are set   *)
(* once, when the cell is created at grid[row][col], and every update      *)
(* copies them ({...cell, type}), so a cell is represented by its type     *)
(* and its row/col fields are its indices.                                 *)
(***************************************************************************)
EXTENDS Integers, Sequences, FiniteSets, TLC

(***************************************************************************)
(* Bounds of the model.                                                    *)
(***************************************************************************)
\* a random source is a cycle of GenSeedLen draws of Math.random()
\* (generator alone)
GenSeedLen == 4
\* sizes asked of the generator alone: one below the clamp up to MaxGenSize
MaxGenSize == 6
\* the component draws its mazes from AppSources random sources
AppSources == 2
\* the grids searched on their own: SolveRows x SolveCols cells, at most
\* MaxWalls of them walls
SolveRows == 3
SolveCols == 3
MaxWalls == 2
ClampMargin == 1

Min(a, b) == IF a < b THEN a ELSE b
Max(a, b) == IF a > b THEN a ELSE b

\* a JavaScript array literal, indexed from 0
Arr(seq) == [i \in 0..(Len(seq) - 1) |-> seq[i + 1]]
length(arr) == Cardinality(DOMAIN arr)

\* line 33: posKey = `${p.row}-${p.col}`
posKey(p) == ToString(p.row) \o "-" \o ToString(p.col)

Pos(r, c) == [row |-> r, col |-> c]

\* the positions of a grid, in the row-major order of its nested loops
Positions(grid) ==
    {Pos(r, c) : r \in DOMAIN grid, c \in DOMAIN grid[0]}

(***************************************************************************)
(* Maze generation (recursive backtracker), lines 37-98.                   *)
(***************************************************************************)
\* lines 67-72: the four directions, in the order of the literal
Directions == << <<0, 1>>, <<0, -1>>, <<1, 0>>, <<-1, 0>> >>

\* Math.random() is drawn from the fractions 0/RandRes .. (RandRes-1)/RandRes:
\* the resolution at which line 75 can yield every index 0..i, i <= 3
RandRes == Len(Directions)

\* the n-th call of Math.random() (n from 0), as a numerator over RandRes
mathRandom(seed, n) == seed[(n % Len(seed)) + 1]

\* line 75: Math.floor(Math.random() * (i + 1))
randomIndex(seed, n, i) == (mathRandom(seed, n) * (i + 1)) \div RandRes

\* line 76: [dirs[i], dirs[j]] = [dirs[j], dirs[i]]
swap(dirs, i, j) == [dirs EXCEPT ![i] = dirs[j], ![j] = dirs[i]]

\* lines 67-77: the direction list after the Fisher-Yates loop i = 3, 2, 1,
\* when `calls` draws of Math.random() have been made before it
shuffledDirs(seed, calls) ==
    LET d4 == Arr(Directions)
        d3 == swap(d4, 3, randomIndex(seed, calls, 3))
        d2 == swap(d3, 2, randomIndex(seed, calls + 1, 2))
        d1 == swap(d2, 1, randomIndex(seed, calls + 2, 1))
    IN d1

\* inBounds with the last row of rooms left out (mr < clampedRows - 1)
inBoundsShort(mr, mc, clampedRows, clampedCols) ==
    mr >= 0 /\ mr < clampedRows - 1 /\ mc >= 0 /\ mc < clampedCols

\* lines 54-55
inBounds(mr, mc, clampedRows, clampedCols) ==
    mr >= 0 /\ mr < clampedRows /\ mc >= 0 /\ mc < clampedCols

(***************************************************************************)
(* carveFrom is recursive; its call stack is explicit here.  A frame       *)
(* [mr, mc, dirs, k] is one activation of carveFrom(mr, mc) whose loop of  *)
(* line 79 is about to take dirs[k].  st = [grid, visited, calls, stack]:  *)
(* the grid, the visited matrix, the number of Math.random() draws made    *)
(* so far and the activations, innermost last.                             *)
(***************************************************************************)
\* lines 62-77: entry of carveFrom(mr, mc), up to the loop of line 79
carveFrom(st, mr, mc, seed) ==
    LET r == 2 * mr + 1
        c == 2 * mc + 1
    IN  [grid |-> [st.grid EXCEPT ![r][c] = "passage"],
         visited |-> [st.visited EXCEPT ![mr][mc] = TRUE],
         calls |-> st.calls + 3,
         stack |-> Append(st.stack,
                          [mr |-> mr, mc |-> mc, k |-> 0,
                           dirs |-> shuffledDirs(seed, st.calls)])]

\* carveStep with the wall opened before the visited test of line 82: the
\* wall towards a room carved earlier is opened too
carveStepBraided(st, clampedRows, clampedCols, seed) ==
    IF st.stack = << >> THEN st
    ELSE
      LET top == Len(st.stack)
          f == st.stack[top]
      IN  IF f.k >= length(f.dirs)
          THEN [st EXCEPT !.stack = SubSeq(@, 1, top - 1)]
          ELSE
            LET dr == f.dirs[f.k][1]
                dc == f.dirs[f.k][2]
                nmr == f.mr + dr
                nmc == f.mc + dc
                wallR == (2 * f.mr + 1) + dr
                wallC == (2 * f.mc + 1) + dc
                next == [st EXCEPT !.stack[top].k = @ + 1]
                opened == [next EXCEPT !.grid[wallR][wallC] = "passage"]
            IN  IF ~inBounds(nmr, nmc, clampedRows, clampedCols)
                THEN next
                ELSE IF st.visited[nmr][nmc]
                THEN opened
                ELSE carveFrom(opened, nmr, nmc, seed)

\* lines 79-89: one iteration of the loop in the innermost activation, or
\* its return when the loop is over; nothing once carveFrom(0, 0) returned
carveStep(st, clampedRows, clampedCols, seed) ==
    IF st.stack = << >> THEN st
    ELSE
      LET top == Len(st.stack)
          f == st.stack[top]
      IN  IF f.k >= length(f.dirs)
          THEN [st EXCEPT !.stack = SubSeq(@, 1, top - 1)]
          ELSE
            LET dr == f.dirs[f.k][1]
                dc == f.dirs[f.k][2]
                nmr == f.mr + dr
                nmc == f.mc + dc
                wallR == (2 * f.mr + 1) + dr
                wallC == (2 * f.mc + 1) + dc
                next == [st EXCEPT !.stack[top].k = @ + 1]
            IN  IF ~inBounds(nmr, nmc, clampedRows, clampedCols)
                THEN next
                ELSE IF st.visited[nmr][nmc]
                THEN next
                ELSE carveFrom([next EXCEPT !.grid[wallR][wallC] = "passage"],
                               nmr, nmc, seed)

\* sixteen steps at once: keeps the evaluation of carveRun shallow
carveStep4(st, R, C, seed) ==
    carveStep(carveStep(carveStep(carveStep(st, R, C, seed),
                                  R, C, seed), R, C, seed), R, C, seed)
carveStep16(st, R, C, seed) ==
    carveStep4(carveStep4(carveStep4(carveStep4(st, R, C, seed),
                                     R, C, seed), R, C, seed), R, C, seed)

RECURSIVE carveBurst(_, _, _, _, _)
\* at most n times sixteen steps, fewer when carveFrom(0, 0) has returned:
\* keeps the evaluation of carveRun shallow on the largest mazes
carveBurst(st, R, C, seed, n) ==
    IF n = 0 \/ st.stack = << >> THEN st
    ELSE carveBurst(carveStep16(st, R, C, seed), R, C, seed, n - 1)

RECURSIVE carveRun(_, _, _, _)
\* line 91: carveFrom(0, 0) run until it returns
carveRun(st, clampedRows, clampedCols, seed) ==
    IF st.stack = << >> THEN st
    ELSE carveRun(carveBurst(st, clampedRows, clampedCols, seed, 16),
                  clampedRows, clampedCols, seed)

\* placeEndpoints with the exit on the last row, at (rows - 1, cols - 1)
placeEndpointsCorner(carved, rows, cols) ==
    LET entrance == [carved EXCEPT ![1][0] = "start"]
    IN  [entrance EXCEPT ![rows - 1][cols - 1] = "end"]

\* lines 93-95: entrance and exit
placeEndpoints(carved, rows, cols) ==
    LET entrance == [carved EXCEPT ![1][0] = "start"]
    IN  [entrance EXCEPT ![rows - 2][cols - 1] = "end"]

\* generatePerfectMaze without the upper limit of lines 39-40
generatePerfectMazeNoCap(mazeRows, mazeCols, seed) ==
    LET clampedRows == Max(5, mazeRows)
        clampedCols == Max(5, mazeCols)
        rows == 2 * clampedRows + 1
        cols == 2 * clampedCols + 1
        walls == [r \in 0..(rows - 1) |-> [c \in 0..(cols - 1) |-> "wall"]]
        visited == [mr \in 0..(clampedRows - 1) |->
                       [mc \in 0..(clampedCols - 1) |-> FALSE]]
        carved == carveRun(carveFrom([grid |-> walls, visited |-> visited,
                                      calls |-> 0, stack |-> << >>],
                                     0, 0, seed),
                           clampedRows, clampedCols, seed).grid
    IN  placeEndpoints(carved, rows, cols)

\* lines 37-98; seed is the random source the call consumes
generatePerfectMaze(mazeRows, mazeCols, seed) ==
    LET clampedRows == Min(50, Max(5, mazeRows))
        clampedCols == Min(50, Max(5, mazeCols))
        rows == 2 * clampedRows + 1
        cols == 2 * clampedCols + 1
        walls == [r \in 0..(rows - 1) |-> [c \in 0..(cols - 1) |-> "wall"]]
        visited == [mr \in 0..(clampedRows - 1) |->
                       [mc \in 0..(clampedCols - 1) |-> FALSE]]
        carved == carveRun(carveFrom([grid |-> walls, visited |-> visited,
                                      calls |-> 0, stack |-> << >>],
                                     0, 0, seed),
                           clampedRows, clampedCols, seed).grid
    IN  placeEndpoints(carved, rows, cols)

(***************************************************************************)
(* Pathfinding (BFS / DFS), lines 102-222.                                 *)
(* Arrays that grow (res, q, stack, visitedOrder, path) are sequences:     *)
(* index i of the source is index i + 1 here.  A Map<string, _> is a       *)
(* function on the set of its keys.                                        *)
(***************************************************************************)
\* the null of `Position | null`
null == [null |-> TRUE]

\* getNeighbors without the wall test of line 117
getNeighborsThroughWalls(grid, pos) ==
    LET deltas == << [dr |-> -1, dc |-> 0], [dr |-> 1, dc |-> 0],
                     [dr |-> 0, dc |-> -1], [dr |-> 0, dc |-> 1] >>
        rows == length(grid)
        cols == length(grid[0])
        cand == [i \in 1..4 |-> Pos(pos.row + deltas[i].dr,
                                    pos.col + deltas[i].dc)]
        keep(n) == ~(n.row < 0 \/ n.row >= rows \/ n.col < 0 \/ n.col >= cols)
    IN  SelectSeq(cand, keep)

\* getNeighbors that passes only through cells no animation has drawn on
getNeighborsUnmarked(grid, pos) ==
    LET deltas == << [dr |-> -1, dc |-> 0], [dr |-> 1, dc |-> 0],
                     [dr |-> 0, dc |-> -1], [dr |-> 0, dc |-> 1] >>
        rows == length(grid)
        cols == length(grid[0])
        cand == [i \in 1..4 |-> Pos(pos.row + deltas[i].dr,
                                    pos.col + deltas[i].dc)]
        keep(n) == /\ ~(n.row < 0 \/ n.row >= rows
                        \/ n.col < 0 \/ n.col >= cols)
                   /\ grid[n.row][n.col] \in {"passage", "start", "end"}
    IN  SelectSeq(cand, keep)

\* lines 102-122
getNeighbors(grid, pos) ==
    LET deltas == << [dr |-> -1, dc |-> 0], [dr |-> 1, dc |-> 0],
                     [dr |-> 0, dc |-> -1], [dr |-> 0, dc |-> 1] >>
        rows == length(grid)
        cols == length(grid[0])
        cand == [i \in 1..4 |-> Pos(pos.row + deltas[i].dr,
                                    pos.col + deltas[i].dc)]
        keep(n) == /\ ~(n.row < 0 \/ n.row >= rows
                        \/ n.col < 0 \/ n.col >= cols)
                   /\ grid[n.row][n.col] # "wall"
    IN  SelectSeq(cand, keep)

\* lastOfType with the scan stopped at the first cell of the type
firstOfType(grid, type) ==
    LET found == {p \in Positions(grid) : grid[p.row][p.col] = type}
    IN  IF found = {} THEN null
        ELSE CHOOSE p \in found :
                \A q \in found : \/ q.row > p.row
                                 \/ (q.row = p.row /\ q.col >= p.col)

\* lines 128-133: the value a row-major scan leaves in `start` (or `end`):
\* the last cell of that type, null when there is none
lastOfType(grid, type) ==
    LET found == {p \in Positions(grid) : grid[p.row][p.col] = type}
    IN  IF found = {} THEN null
        ELSE CHOOSE p \in found :
                \A q \in found : \/ q.row < p.row
                                 \/ (q.row = p.row /\ q.col <= p.col)

\* line 135: the Error thrown by findStartEnd
MissingEndpoint == [error |-> "Maze must contain start and end"]

\* lines 124-137
findStartEnd(grid) ==
    LET start == lastOfType(grid, "start")
        end == lastOfType(grid, "end")
    IN  IF start = null \/ end = null THEN MissingEndpoint
        ELSE [start |-> start, end |-> end]

\* parent.get(posKey(cur)) ?? null, lines 174 and 218
parentOf(parent, cur) ==
    IF posKey(cur) \in DOMAIN parent THEN parent[posKey(cur)] ELSE null

\* lines 172-175 and 216-219: one iteration of `while (cur)`;
\* w = [cur, path]
backtrackStep(parent, w) ==
    IF w.cur = null THEN w
    ELSE [cur |-> parentOf(parent, w.cur), path |-> Append(w.path, w.cur)]

backtrackStep4(parent, w) ==
    backtrackStep(parent, backtrackStep(parent,
        backtrackStep(parent, backtrackStep(parent, w))))
backtrackStep16(parent, w) ==
    backtrackStep4(parent, backtrackStep4(parent,
        backtrackStep4(parent, backtrackStep4(parent, w))))

RECURSIVE backtrack(_, _)
\* lines 170-175 and 214-219
backtrack(parent, w) ==
    IF w.cur = null THEN w.path
    ELSE backtrack(parent, backtrackStep16(parent, w))

\* Array.prototype.reverse, lines 176 and 220
reverse(seq) == [i \in 1..Len(seq) |-> seq[Len(seq) + 1 - i]]

\* a search that reports an empty path where the end was never reached
solveResultEmptyPath(parent, end, visitedOrder) ==
    IF posKey(end) \notin DOMAIN parent
    THEN [path |-> << >>, visitedOrder |-> visitedOrder]
    ELSE [path |-> reverse(backtrack(parent, [cur |-> end, path |-> << >>])),
          visitedOrder |-> visitedOrder]

\* lines 168-177 and 212-221
solveResult(parent, end, visitedOrder) ==
    IF posKey(end) \notin DOMAIN parent
    THEN [visitedOrder |-> visitedOrder]
    ELSE [path |-> reverse(backtrack(parent, [cur |-> end, path |-> << >>])),
          visitedOrder |-> visitedOrder]

RECURSIVE bfsNeighbors(_, _, _, _)

\* lines 160-165, from neighbour i on;
\* st = [q, visited, parent, visitedOrder, broke]
bfsNeighbors(st, cur, ns, i) ==
    IF i > Len(ns) THEN st
    ELSE LET n == ns[i]
         IN  IF st.visited[n.row][n.col]
             THEN bfsNeighbors(st, cur, ns, i + 1)
             ELSE bfsNeighbors(
                    [st EXCEPT !.visited[n.row][n.col] = TRUE,
                               !.parent = (posKey(n) :> cur) @@ @,
                               !.q = Append(@, n)],
                    cur, ns, i + 1)

\* line 155: the loop of bfs goes on
bfsRunning(st) == ~st.broke /\ Len(st.q) > 0

\* bfsStep with q.pop() in place of q.shift(): the queue used as a stack
bfsStepPop(grid, end, st) ==
    IF ~bfsRunning(st) THEN st
    ELSE LET cur == st.q[Len(st.q)]
             popped == [st EXCEPT !.q = SubSeq(@, 1, Len(@) - 1),
                                  !.visitedOrder = Append(@, cur)]
         IN  IF cur.row = end.row /\ cur.col = end.col
             THEN [popped EXCEPT !.broke = TRUE]
             ELSE bfsNeighbors(popped, cur, getNeighbors(grid, cur), 1)

\* bfsStep with the break of line 158 taken before the push of line 157:
\* the end cell is not listed in visitedOrder
bfsStepEndUnlisted(grid, end, st) ==
    IF ~bfsRunning(st) THEN st
    ELSE LET cur == Head(st.q)
             shifted == [st EXCEPT !.q = Tail(@),
                                   !.visitedOrder = Append(@, cur)]
         IN  IF cur.row = end.row /\ cur.col = end.col
             THEN [st EXCEPT !.q = Tail(@), !.broke = TRUE]
             ELSE bfsNeighbors(shifted, cur, getNeighbors(grid, cur), 1)

\* lines 156-165: one iteration of the loop; broke records the break of
\* line 158
bfsStep(grid, end, st) ==
    IF ~bfsRunning(st) THEN st
    ELSE LET cur == Head(st.q)
             shifted == [st EXCEPT !.q = Tail(@),
                                   !.visitedOrder = Append(@, cur)]
         IN  IF cur.row = end.row /\ cur.col = end.col
             THEN [shifted EXCEPT !.broke = TRUE]
             ELSE bfsNeighbors(shifted, cur, getNeighbors(grid, cur), 1)

bfsStep4(grid, end, st) ==
    bfsStep(grid, end, bfsStep(grid, end,
        bfsStep(grid, end, bfsStep(grid, end, st))))
bfsStep16(grid, end, st) ==
    bfsStep4(grid, end, bfsStep4(grid, end,
        bfsStep4(grid, end, bfsStep4(grid, end, st))))

RECURSIVE bfsLoop(_, _, _)
\* lines 155-166
bfsLoop(grid, end, st) ==
    IF ~bfsRunning(st) THEN st
    ELSE bfsLoop(grid, end, bfsStep16(grid, end, st))

\* lines 139-178
bfs(grid) ==
    LET se == findStartEnd(grid)
    IN  IF se = MissingEndpoint THEN se
        ELSE
          LET start == se.start
              end == se.end
              visited == [r \in DOMAIN grid |-> [c \in DOMAIN grid[0] |->
                             r = start.row /\ c = start.col]]
              st == bfsLoop(grid, end,
                            [q |-> << start >>,
                             visited |-> visited,
                             parent |-> (posKey(start) :> null),
                             visitedOrder |-> << >>,
                             broke |-> FALSE])
          IN  solveResult(st.parent, end, st.visitedOrder)

RECURSIVE dfsNeighborsForward(_, _, _, _)

\* the loop of lines 204-209 run from the first neighbour to the last
\* (i counts the neighbours still to come, less one): the last unvisited
\* neighbour ends on top of the stack
dfsNeighborsForward(st, cur, neighbors, i) ==
    IF ~(i >= 0) THEN st
    ELSE LET n == neighbors[Len(neighbors) - i]
         IN  IF st.visited[n.row][n.col]
             THEN dfsNeighborsForward(st, cur, neighbors, i - 1)
             ELSE dfsNeighborsForward(
                    [st EXCEPT !.parent = IF posKey(n) \notin DOMAIN @
                                          THEN (posKey(n) :> cur) @@ @
                                          ELSE @,
                               !.stack = Append(@, n)],
                    cur, neighbors, i - 1)

RECURSIVE dfsNeighbors(_, _, _, _)

\* lines 204-209, from index i down;
\* st = [stack, visited, parent, visitedOrder, broke]
dfsNeighbors(st, cur, neighbors, i) ==
    IF ~(i >= 0) THEN st
    ELSE LET n == neighbors[i + 1]
         IN  IF st.visited[n.row][n.col]
             THEN dfsNeighbors(st, cur, neighbors, i - 1)
             ELSE dfsNeighbors(
                    [st EXCEPT !.parent = IF posKey(n) \notin DOMAIN @
                                          THEN (posKey(n) :> cur) @@ @
                                          ELSE @,
                               !.stack = Append(@, n)],
                    cur, neighbors, i - 1)

\* line 195: the loop of dfs goes on
dfsRunning(st) == ~st.broke /\ Len(st.stack) > 0

\* dfsStep without the `continue` of line 197 for a cell popped again
dfsStepAgain(grid, end, st) ==
    IF ~dfsRunning(st) THEN st
    ELSE LET cur == st.stack[Len(st.stack)]
             popped == [st EXCEPT !.stack = SubSeq(@, 1, Len(@) - 1)]
             marked == [popped EXCEPT
                          !.visited[cur.row][cur.col] = TRUE,
                          !.visitedOrder = Append(@, cur)]
             neighbors == getNeighbors(grid, cur)
         IN  IF cur.row = end.row /\ cur.col = end.col
             THEN [marked EXCEPT !.broke = TRUE]
             ELSE dfsNeighbors(marked, cur, neighbors, Len(neighbors) - 1)

\* lines 196-209: one iteration of the loop; broke records the break of
\* line 201
dfsStep(grid, end, st) ==
    IF ~dfsRunning(st) THEN st
    ELSE LET cur == st.stack[Len(st.stack)]
             popped == [st EXCEPT !.stack = SubSeq(@, 1, Len(@) - 1)]
         IN  IF popped.visited[cur.row][cur.col]
             THEN popped
             ELSE LET marked == [popped EXCEPT
                                   !.visited[cur.row][cur.col] = TRUE,
                                   !.visitedOrder = Append(@, cur)]
                      neighbors == getNeighbors(grid, cur)
                  IN  IF cur.row = end.row /\ cur.col = end.col
                      THEN [marked EXCEPT !.broke = TRUE]
                      ELSE dfsNeighbors(marked, cur, neighbors,
                                        Len(neighbors) - 1)

dfsStep4(grid, end, st) ==
    dfsStep(grid, end, dfsStep(grid, end,
        dfsStep(grid, end, dfsStep(grid, end, st))))
dfsStep16(grid, end, st) ==
    dfsStep4(grid, end, dfsStep4(grid, end,
        dfsStep4(grid, end, dfsStep4(grid, end, st))))

RECURSIVE dfsLoop(_, _, _)
\* lines 195-210
dfsLoop(grid, end, st) ==
    IF ~dfsRunning(st) THEN st
    ELSE dfsLoop(grid, end, dfsStep16(grid, end, st))

\* lines 180-222
dfs(grid) ==
    LET se == findStartEnd(grid)
    IN  IF se = MissingEndpoint THEN se
        ELSE
          LET start == se.start
              end == se.end
              visited == [r \in DOMAIN grid |-> [c \in DOMAIN grid[0] |->
                             FALSE]]
              st == dfsLoop(grid, end,
                            [stack |-> << start >>,
                             visited |-> visited,
                             parent |-> (posKey(start) :> null),
                             visitedOrder |-> << >>,
                             broke |-> FALSE])
          IN  solveResult(st.parent, end, st.visitedOrder)

(***************************************************************************)
(* The App component, lines 226-474.                                       *)
(*                                                                         *)
(* React state is one variable per useState; a handler reads the values of *)
(* the last render and its updates are applied when it returns, functional *)
(* updates (setGrid(prev => ...)) in the order they were queued.  theme    *)
(* and the audio helpers touch nothing the handlers read and are left out. *)
(*                                                                         *)
(* timers is the browser's table of pending window.setTimeout calls: a     *)
(* record [id, kind, i, at] is the callback of kind `kind` for index i due *)
(* at time `at`; now is the time elapsed since the last solve request.     *)
(* The callbacks of one handleSolve call share its locals: closure holds   *)
(* path, visitedOrder, baseDelay and algorithm, visitedSet the Set of line *)
(* 368.  A `number | null` is << >> for null and << n >> for n.            *)
(***************************************************************************)
VARIABLES
    mazeRows, mazeCols,     \* lines 227-228
    grid,                   \* line 229
    algorithm,              \* line 232
    speed,                  \* line 234
    status,                 \* line 236
    pathLength,             \* line 237
    visitedCount,           \* line 238
    isAnimating,            \* line 239
    timeoutsRef,            \* line 241: the recorded timer ids
    timers,                 \* pending window.setTimeout callbacks
    now,                    \* time since the last solve request
    closure,                \* locals of the last handleSolve call
    visitedSet,             \* line 368
    mounted,                \* FALSE once the cleanup of lines 291-295 ran
    lastAction,             \* the handler or callback that ran last
    genInput,               \* arguments of a generatePerfectMaze call
    bfsResult, dfsResult    \* what bfs(grid) and dfs(grid) returned

appVars == << mazeRows, mazeCols, grid, algorithm, speed, status, pathLength,
              visitedCount, isAnimating, timeoutsRef, timers, now, closure,
              visitedSet, mounted, lastAction >>
pureVars == << genInput, bfsResult, dfsResult >>
vars == << mazeRows, mazeCols, grid, algorithm, speed, status, pathLength,
           visitedCount, isAnimating, timeoutsRef, timers, now, closure,
           visitedSet, mounted, lastAction, genInput, bfsResult, dfsResult >>

\* a call that has not been made
NotCalled == [called |-> FALSE]

\* the random sources the component draws a maze from: the k-th is the
\* cycle of the draws k, 2k, 3k, ... (modulo RandRes)
Seeds ==
    {[i \in 1..GenSeedLen |-> (k * i) % RandRes] : k \in 1..AppSources}
\* the sizes asked of onMazeSizeChange: of the buttons 5x5, 25x25 and 50x50
\* (lines 555, 564, 573) the first
Sizes == {5}

\* prev.map(row => row.map(cell => ...)) is written out at each use as
\* [r \in DOMAIN prev |-> [c \in DOMAIN prev[r] |-> ...]]

\* clearedCell that resets the path only and leaves the visited cells
clearedCellPathOnly(r, c, type) ==
    IF type = "path" \/ type = "pathHead"
    THEN "passage" ELSE type

\* lines 324-337: the updater clearPath hands to setGrid
clearedCell(r, c, type) ==
    IF type = "visited" \/ type = "path" \/ type = "pathHead"
    THEN "passage" ELSE type
clearedGrid(prev) ==
    [r \in DOMAIN prev |->
        [c \in DOMAIN prev[r] |-> clearedCell(r, c, prev[r][c])]]

\* lines 297-300: window.clearTimeout on every recorded id
clearTimeouts(pending, ids) ==
    LET cleared == {ids[k] : k \in 1..Len(ids)}
    IN  {t \in pending : t.id \notin cleared}

\* line 366
baseDelayOf(sp) == IF sp = "slow" THEN 40 ELSE IF sp = "fast" THEN 5 ELSE 20

\* String.prototype.toUpperCase on the two algorithm names, line 452
toUpperCase(a) == IF a = "bfs" THEN "BFS" ELSE "DFS"

\* lines 401-403: keyToIndex, a later index replacing an earlier one
keyToIndex(path) ==
    [k \in {posKey(path[i]) : i \in 1..Len(path)} |->
        (CHOOSE i \in 1..Len(path) :
            /\ posKey(path[i]) = k
            /\ \A j \in 1..Len(path) : posKey(path[j]) = k => j <= i) - 1]

\* the ids window.setTimeout hands out next: above every pending one
freshId(pending, n) ==
    LET used == {t.id : t \in pending}
        top == IF used = {} THEN 0
               ELSE CHOOSE m \in used : \A u \in used : u <= m
    IN  top + n

\* scheduled with the path steps delayed by baseDelay * i alone, without
\* the baseDelay * visitedOrder.length of line 457
scheduledTogether(pending, visitedOrder, path, baseDelay) ==
    {[id |-> freshId(pending, i + 1), kind |-> "visited", i |-> i,
      at |-> baseDelay * i] : i \in 0..(Len(visitedOrder) - 1)}
    \cup
    {[id |-> freshId(pending, Len(visitedOrder) + i + 1), kind |-> "path",
      i |-> i, at |-> baseDelay * i] : i \in 0..(Len(path) - 1)}

\* lines 371-398 and 405-460: the timers one handleSolve call registers,
\* called at time 0 with `pending` still due
scheduled(pending, visitedOrder, path, baseDelay) ==
    {[id |-> freshId(pending, i + 1), kind |-> "visited", i |-> i,
      at |-> baseDelay * i] : i \in 0..(Len(visitedOrder) - 1)}
    \cup
    {[id |-> freshId(pending, Len(visitedOrder) + i + 1), kind |-> "path",
      i |-> i, at |-> baseDelay * Len(visitedOrder) + baseDelay * i] :
        i \in 0..(Len(path) - 1)}

\* lines 397 and 459: timeoutsRef.current.push(id), in registration order
scheduledIds(pending, visitedOrder, path) ==
    [k \in 1..(Len(visitedOrder) + Len(path)) |-> freshId(pending, k)]

\* the timer the event loop runs next: the earliest due, the oldest first
nextTimer(pending) ==
    CHOOSE t \in pending :
        \A u \in pending : t.at < u.at \/ (t.at = u.at /\ t.id <= u.id)

\* visitedCell without the start/end test of line 381
visitedCellAny(seen, r, c, type) ==
    IF posKey(Pos(r, c)) \in seen
    THEN IF type = "path" \/ type = "pathHead" THEN type ELSE "visited"
    ELSE type

\* lines 374-392: the updater of visited step, with the Set as it is then
visitedCell(seen, r, c, type) ==
    IF type # "start" /\ type # "end" /\ posKey(Pos(r, c)) \in seen
    THEN IF type = "path" \/ type = "pathHead" THEN type ELSE "visited"
    ELSE type

\* pathCell that wipes the cells ahead of the head instead of leaving
\* them as they are (line 435)
pathCellAheadWiped(index, i, r, c, type) ==
    IF type = "start" \/ type = "end" THEN type
    ELSE IF posKey(Pos(r, c)) \notin DOMAIN index THEN type
    ELSE IF index[posKey(Pos(r, c))] = i THEN "pathHead"
    ELSE IF index[posKey(Pos(r, c))] < i THEN "path"
    ELSE "passage"

\* pathCell without the trail of lines 428-431: the cells behind the head
\* are left as they are
pathCellNoTrail(index, i, r, c, type) ==
    IF type = "start" \/ type = "end" THEN type
    ELSE IF posKey(Pos(r, c)) \notin DOMAIN index THEN type
    ELSE IF index[posKey(Pos(r, c))] = i THEN "pathHead"
    ELSE type

\* lines 408-436: the updater of path step i
pathCell(index, i, r, c, type) ==
    IF type = "start" \/ type = "end" THEN type
    ELSE IF posKey(Pos(r, c)) \notin DOMAIN index THEN type
    ELSE IF index[posKey(Pos(r, c))] = i THEN "pathHead"
    ELSE IF index[posKey(Pos(r, c))] < i THEN "path"
    ELSE type

\* lines 441-450: the updater of the finalize step
finalCell(r, c, type) == IF type = "pathHead" THEN "path" ELSE type

(***************************************************************************)
(* Handlers.  Each is enabled whenever the component is mounted; its early *)
(* return on isAnimating is part of it.                                    *)
(***************************************************************************)
\* lines 302-317
regenerateMaze ==
    /\ mounted
    /\ lastAction' = "regenerateMaze"
    /\ IF isAnimating
       THEN UNCHANGED << mazeRows, mazeCols, grid, status, pathLength,
                         visitedCount, timeoutsRef, timers >>
       ELSE \E seed \in Seeds :
              LET clampedRows == Min(50, Max(5, mazeRows))
                  clampedCols == Min(50, Max(5, mazeCols))
              IN  /\ timers' = clearTimeouts(timers, timeoutsRef)
                  /\ timeoutsRef' = << >>
                  /\ mazeRows' = clampedRows
                  /\ mazeCols' = clampedCols
                  /\ grid' = generatePerfectMaze(clampedRows, clampedCols, seed)
                  /\ status' = "New maze generated"
                  /\ pathLength' = << >>
                  /\ visitedCount' = << >>
    /\ UNCHANGED << algorithm, speed, isAnimating, now, closure, visitedSet,
                    mounted >>
    /\ UNCHANGED pureVars

\* clearPath without the early return of line 320
clearPathAnyTime ==
    /\ mounted
    /\ lastAction' = "clearPath"
    /\ timers' = clearTimeouts(timers, timeoutsRef)
    /\ timeoutsRef' = << >>
    /\ grid' = clearedGrid(grid)
    /\ status' = "Cleared path"
    /\ pathLength' = << >>
    /\ visitedCount' = << >>
    /\ UNCHANGED << mazeRows, mazeCols, algorithm, speed, isAnimating, now,
                    closure, visitedSet, mounted >>
    /\ UNCHANGED pureVars

\* lines 319-341
clearPath ==
    /\ mounted
    /\ lastAction' = "clearPath"
    /\ IF isAnimating
       THEN UNCHANGED << grid, status, pathLength, visitedCount, timeoutsRef,
                         timers >>
       ELSE /\ timers' = clearTimeouts(timers, timeoutsRef)
            /\ timeoutsRef' = << >>
            /\ grid' = clearedGrid(grid)
            /\ status' = "Cleared path"
            /\ pathLength' = << >>
            /\ visitedCount' = << >>
    /\ UNCHANGED << mazeRows, mazeCols, algorithm, speed, isAnimating, now,
                    closure, visitedSet, mounted >>
    /\ UNCHANGED pureVars

\* lines 343-461.  The call of clearPath at line 348 queues the updater of
\* lines 324-337, while the snapshot of line 351 copies the grid of the last
\* render; the timers still pending keep their due time as now restarts.
handleSolve ==
    /\ mounted
    /\ lastAction' = "handleSolve"
    /\ IF isAnimating
       THEN UNCHANGED << grid, status, pathLength, visitedCount, isAnimating,
                         timeoutsRef, timers, now, closure, visitedSet >>
       ELSE
         LET pending == {[t EXCEPT !.at = @ - now] :
                            t \in clearTimeouts(timers, timeoutsRef)}
             snapshot == grid
             result == IF algorithm = "bfs" THEN bfs(snapshot)
                       ELSE dfs(snapshot)
             baseDelay == baseDelayOf(speed)
         IN  /\ grid' = clearedGrid(grid)
             /\ now' = 0
             /\ IF result = MissingEndpoint
                THEN \* findStartEnd throws: the handler ends at line 353
                     /\ status' = "Solving maze..."
                     /\ pathLength' = << >>
                     /\ visitedCount' = << >>
                     /\ timeoutsRef' = << >>
                     /\ timers' = pending
                     /\ UNCHANGED << isAnimating, closure, visitedSet >>
                ELSE IF "path" \notin DOMAIN result
                THEN \* lines 357-360
                     /\ status' = "No path found"
                     /\ pathLength' = << >>
                     /\ visitedCount' = << Len(result.visitedOrder) >>
                     /\ timeoutsRef' = << >>
                     /\ timers' = pending
                     /\ UNCHANGED << isAnimating, closure, visitedSet >>
                ELSE /\ status' = "Solving maze..."
                     /\ pathLength' = << Len(result.path) >>
                     /\ visitedCount' = << Len(result.visitedOrder) >>
                     /\ isAnimating' = TRUE
                     /\ timeoutsRef' = scheduledIds(pending,
                                          result.visitedOrder, result.path)
                     /\ timers' = pending \cup
                                  scheduled(pending, result.visitedOrder,
                                            result.path, baseDelay)
                     /\ closure' = [path |-> result.path,
                                    visitedOrder |-> result.visitedOrder,
                                    keyToIndex |-> keyToIndex(result.path),
                                    baseDelay |-> baseDelay,
                                    algorithm |-> algorithm]
                     /\ visitedSet' = {}
    /\ UNCHANGED << mazeRows, mazeCols, algorithm, speed, mounted >>
    /\ UNCHANGED pureVars

\* lines 463-474
onMazeSizeChange ==
    /\ mounted
    /\ lastAction' = "onMazeSizeChange"
    /\ IF isAnimating
       THEN UNCHANGED << mazeRows, mazeCols, grid, status, pathLength,
                         visitedCount >>
       ELSE \E size \in Sizes, seed \in Seeds :
              LET rows == size
                  cols == size
                  clampedRows == Min(50, Max(5, rows))
                  clampedCols == Min(50, Max(5, cols))
              IN  /\ mazeRows' = clampedRows
                  /\ mazeCols' = clampedCols
                  /\ grid' = generatePerfectMaze(clampedRows, clampedCols, seed)
                  /\ status' = "Maze size changed"
                  /\ pathLength' = << >>
                  /\ visitedCount' = << >>
    /\ UNCHANGED << algorithm, speed, isAnimating, timeoutsRef, timers, now,
                    closure, visitedSet, mounted >>
    /\ UNCHANGED pureVars

\* lines 536-541: the select is disabled while isAnimating
setAlgorithm ==
    /\ mounted
    /\ ~isAnimating
    /\ lastAction' = "setAlgorithm"
    /\ \E a \in {"bfs", "dfs"} : algorithm' = a
    /\ UNCHANGED << mazeRows, mazeCols, grid, speed, status, pathLength,
                    visitedCount, isAnimating, timeoutsRef, timers, now,
                    closure, visitedSet, mounted >>
    /\ UNCHANGED pureVars

\* lines 502-507 (keys 1-3, at any time) and 597-602
setSpeed ==
    /\ mounted
    /\ lastAction' = "setSpeed"
    /\ \E sp \in {"slow", "normal", "fast"} : speed' = sp
    /\ UNCHANGED << mazeRows, mazeCols, grid, algorithm, status, pathLength,
                    visitedCount, isAnimating, timeoutsRef, timers, now,
                    closure, visitedSet, mounted >>
    /\ UNCHANGED pureVars

\* lines 291-295: the cleanup React runs when the component is unmounted
unmount ==
    /\ mounted
    /\ mounted' = FALSE
    /\ lastAction' = "unmount"
    /\ timers' = clearTimeouts(timers, timeoutsRef)
    /\ UNCHANGED << mazeRows, mazeCols, grid, algorithm, speed, status,
                    pathLength, visitedCount, isAnimating, timeoutsRef, now,
                    closure, visitedSet >>
    /\ UNCHANGED pureVars

(***************************************************************************)
(* Timer callbacks: the event loop runs the pending timer that is due      *)
(* first.                                                                  *)
(***************************************************************************)
\* lines 372-396: the callback of visited step i
visitedStep ==
    /\ timers # {}
    /\ nextTimer(timers).kind = "visited"
    /\ LET t == nextTimer(timers)
           pos == closure.visitedOrder[t.i + 1]
           seen == visitedSet \cup {posKey(pos)}
       IN  /\ visitedSet' = seen
           /\ grid' = [r \in DOMAIN grid |-> [c \in DOMAIN grid[r] |->
                          visitedCell(seen, r, c, grid[r][c])]]
           /\ status' = IF t.i = Len(closure.visitedOrder) - 1
                        THEN "Drawing shortest path..." ELSE status
           /\ timers' = timers \ {t}
           /\ now' = t.at
    /\ lastAction' = "visitedStep"
    /\ UNCHANGED << mazeRows, mazeCols, algorithm, speed, pathLength,
                    visitedCount, isAnimating, timeoutsRef, closure, mounted >>
    /\ UNCHANGED pureVars

\* pathStep with setIsAnimating(false) called by the last path step itself,
\* outside the callback of the finalize timer
pathStepIdleEarly ==
    /\ timers # {}
    /\ nextTimer(timers).kind = "path"
    /\ LET t == nextTimer(timers)
           finalize == [id |-> freshId(timers, 1), kind |-> "finalize",
                        i |-> 0, at |-> t.at + closure.baseDelay * 2]
       IN  /\ grid' = [r \in DOMAIN grid |-> [c \in DOMAIN grid[r] |->
                          pathCell(closure.keyToIndex, t.i, r, c,
                                   grid[r][c])]]
           /\ timers' = (timers \ {t}) \cup
                        (IF t.i = Len(closure.path) - 1 THEN {finalize} ELSE {})
           /\ isAnimating' = IF t.i = Len(closure.path) - 1
                             THEN FALSE ELSE isAnimating
           /\ now' = t.at
    /\ lastAction' = "pathStep"
    /\ UNCHANGED << mazeRows, mazeCols, algorithm, speed, status, pathLength,
                    visitedCount, timeoutsRef, closure, visitedSet, mounted >>
    /\ UNCHANGED pureVars

\* lines 407-456: the callback of path step i; the last one sets the
\* finalize timer, whose id is not pushed to timeoutsRef
pathStep ==
    /\ timers # {}
    /\ nextTimer(timers).kind = "path"
    /\ LET t == nextTimer(timers)
           finalize == [id |-> freshId(timers, 1), kind |-> "finalize",
                        i |-> 0, at |-> t.at + closure.baseDelay * 2]
       IN  /\ grid' = [r \in DOMAIN grid |-> [c \in DOMAIN grid[r] |->
                          pathCell(closure.keyToIndex, t.i, r, c,
                                   grid[r][c])]]
           /\ timers' = (timers \ {t}) \cup
                        (IF t.i = Len(closure.path) - 1 THEN {finalize} ELSE {})
           /\ now' = t.at
    /\ lastAction' = "pathStep"
    /\ UNCHANGED << mazeRows, mazeCols, algorithm, speed, status, pathLength,
                    visitedCount, isAnimating, timeoutsRef, closure,
                    visitedSet, mounted >>
    /\ UNCHANGED pureVars

\* finalizeStep without the setIsAnimating(false) of line 451
finalizeStepStillBusy ==
    /\ timers # {}
    /\ nextTimer(timers).kind = "finalize"
    /\ LET t == nextTimer(timers)
       IN  /\ grid' = [r \in DOMAIN grid |-> [c \in DOMAIN grid[r] |->
                          finalCell(r, c, grid[r][c])]]
           /\ status' = "Solved using " \o toUpperCase(closure.algorithm)
           /\ timers' = timers \ {t}
           /\ now' = t.at
    /\ lastAction' = "finalizeStep"
    /\ UNCHANGED << mazeRows, mazeCols, algorithm, speed, pathLength,
                    visitedCount, isAnimating, timeoutsRef, closure,
                    visitedSet, mounted >>
    /\ UNCHANGED pureVars

\* lines 440-454: the callback of the finalize timer
finalizeStep ==
    /\ timers # {}
    /\ nextTimer(timers).kind = "finalize"
    /\ LET t == nextTimer(timers)
       IN  /\ grid' = [r \in DOMAIN grid |-> [c \in DOMAIN grid[r] |->
                          finalCell(r, c, grid[r][c])]]
           /\ isAnimating' = FALSE
           /\ status' = "Solved using " \o toUpperCase(closure.algorithm)
           /\ timers' = timers \ {t}
           /\ now' = t.at
    /\ lastAction' = "finalizeStep"
    /\ UNCHANGED << mazeRows, mazeCols, algorithm, speed, pathLength,
                    visitedCount, timeoutsRef, closure, visitedSet, mounted >>
    /\ UNCHANGED pureVars

\* The component mounts with a 25 x 25 maze (lines 227-231).  The behaviours
\* explored start right after the first press of the 5x5 size button (line
\* 555), which replaces the maze, the status and both counters and leaves
\* every other field as the mount set it.
Init ==
    /\ mazeRows = 5
    /\ mazeCols = 5
    /\ \E seed \in Seeds : grid = generatePerfectMaze(5, 5, seed)
    /\ algorithm = "bfs"
    /\ speed = "fast"
    /\ status = "Maze size changed"
    /\ pathLength = << >>
    /\ visitedCount = << >>
    /\ isAnimating = FALSE
    /\ timeoutsRef = << >>
    /\ timers = {}
    /\ now = 0
    /\ closure = NotCalled
    /\ visitedSet = {}
    /\ mounted = TRUE
    /\ lastAction = "onMazeSizeChange"
    /\ genInput = NotCalled
    /\ bfsResult = NotCalled
    /\ dfsResult = NotCalled

Next ==
    \/ regenerateMaze
    \/ clearPath
    \/ handleSolve
    \/ onMazeSizeChange
    \/ setAlgorithm
    \/ setSpeed
    \/ unmount
    \/ visitedStep
    \/ pathStep
    \/ finalizeStep

Spec == Init /\ [][Next]_vars

\* The life of a playback: the requests that start one, are refused during
\* one or cancel one, and the timer callbacks.  regenerateMaze,
\* onMazeSizeChange and setSpeed are left to Spec: refused or without
\* effect on the timers while a playback runs, they only multiply the
\* states between two playbacks.
PlaybackNext ==
    \/ handleSolve
    \/ clearPath
    \/ setAlgorithm
    \/ unmount
    \/ visitedStep
    \/ pathStep
    \/ finalizeStep

\* The browser runs every timer that stays pending: a callback that is due
\* is not put off for ever.
FairSpec ==
    /\ Init
    /\ [][PlaybackNext]_vars
    /\ WF_vars(visitedStep)
    /\ WF_vars(pathStep)
    /\ WF_vars(finalizeStep)

(***************************************************************************)
(* generatePerfectMaze on its own: a call with arguments genInput, whose   *)
(* result is left in grid and then searched by bfs and dfs.                *)
(***************************************************************************)
GenSeeds == [1..GenSeedLen -> 0..(RandRes - 1)]
GenSizes == 4..MaxGenSize

\* the component's variables while a function is run on its own
Detached ==
    /\ mazeRows = 0
    /\ mazeCols = 0
    /\ algorithm = "bfs"
    /\ speed = "fast"
    /\ status = ""
    /\ pathLength = << >>
    /\ visitedCount = << >>
    /\ isAnimating = FALSE
    /\ timeoutsRef = << >>
    /\ timers = {}
    /\ now = 0
    /\ closure = NotCalled
    /\ visitedSet = {}
    /\ mounted = FALSE

GenInit ==
    /\ Detached
    /\ genInput \in [mazeRows : GenSizes, mazeCols : GenSizes, seed : GenSeeds]
    /\ grid = << >>
    /\ lastAction = "none"
    /\ bfsResult = NotCalled
    /\ dfsResult = NotCalled

generate ==
    /\ lastAction = "none"
    /\ grid' = generatePerfectMaze(genInput.mazeRows, genInput.mazeCols,
                                   genInput.seed)
    /\ lastAction' = "generatePerfectMaze"
    /\ UNCHANGED << mazeRows, mazeCols, algorithm, speed, status, pathLength,
                    visitedCount, isAnimating, timeoutsRef, timers, now,
                    closure, visitedSet, mounted >>
    /\ UNCHANGED pureVars

(***************************************************************************)
(* bfs and dfs on their own, first bfs(grid) and then dfs(grid), on grids  *)
(* of SolveRows x SolveCols cells: every placement of one start and one    *)
(* end with at most MaxWalls walls, and every placement of any other       *)
(* number of start and end cells (none or two of either) without walls;    *)
(* the remaining cells are passage.                                        *)
(***************************************************************************)
SolvePositions ==
    {Pos(r, c) : r \in 0..(SolveRows - 1), c \in 0..(SolveCols - 1)}

\* the grid with the given start, end and wall cells
gridOf(starts, ends, walls) ==
    [r \in 0..(SolveRows - 1) |-> [c \in 0..(SolveCols - 1) |->
        IF Pos(r, c) \in starts THEN "start"
        ELSE IF Pos(r, c) \in ends THEN "end"
        ELSE IF Pos(r, c) \in walls THEN "wall"
        ELSE "passage"]]

UpTo(set, n) == {x \in SUBSET set : Cardinality(x) <= n}

WallSets == UpTo(SolvePositions, MaxWalls)
EndpointSets == UpTo(SolvePositions, 2)

\* one start, one end, at most MaxWalls walls
WalledGrids ==
    {gridOf({t[1]}, {t[2]}, t[3]) :
        t \in {u \in SolvePositions \X SolvePositions \X WallSets :
                  u[1] # u[2] /\ u[1] \notin u[3] /\ u[2] \notin u[3]}}

\* any other number of start and end cells, no walls
OddGrids ==
    {gridOf(t[1], t[2], {}) :
        t \in {u \in EndpointSets \X EndpointSets :
                  /\ u[1] \cap u[2] = {}
                  /\ ~(Cardinality(u[1]) = 1 /\ Cardinality(u[2]) = 1)}}

SolveGrids == WalledGrids \cup OddGrids

SolveInit ==
    /\ Detached
    /\ grid \in SolveGrids
    /\ lastAction = "none"
    /\ genInput = NotCalled
    /\ bfsResult = NotCalled
    /\ dfsResult = NotCalled

runBfs ==
    /\ grid # << >>
    /\ bfsResult = NotCalled
    /\ bfsResult' = bfs(grid)
    /\ lastAction' = "bfs"
    /\ UNCHANGED << mazeRows, mazeCols, grid, algorithm, speed, status,
                    pathLength, visitedCount, isAnimating, timeoutsRef, timers,
                    now, closure, visitedSet, mounted, genInput, dfsResult >>

runDfs ==
    /\ bfsResult # NotCalled
    /\ dfsResult = NotCalled
    /\ dfsResult' = dfs(grid)
    /\ lastAction' = "dfs"
    /\ UNCHANGED << mazeRows, mazeCols, grid, algorithm, speed, status,
                    pathLength, visitedCount, isAnimating, timeoutsRef, timers,
                    now, closure, visitedSet, mounted, genInput, bfsResult >>

SolveNext == runBfs \/ runDfs

SolveSpec == SolveInit /\ [][SolveNext]_vars

(***************************************************************************)
(* The component holding a hand-built grid, as a test that renders App     *)
(* with generatePerfectMaze stubbed sees it: generated mazes always join   *)
(* start and end, so the branch of lines 357-360 is only taken on such a   *)
(* grid.  Every other field is as in Init.                                 *)
(***************************************************************************)
\* the grids of WalledGrids whose start or end has a wall (or the border)
\* on every side
StubGrids ==
    {g \in WalledGrids :
        \/ getNeighbors(g, lastOfType(g, "start")) = << >>
        \/ getNeighbors(g, lastOfType(g, "end")) = << >>}

StubInit ==
    /\ mazeRows = 5
    /\ mazeCols = 5
    /\ grid \in StubGrids
    /\ algorithm = "bfs"
    /\ speed = "fast"
    /\ status = "Maze size changed"
    /\ pathLength = << >>
    /\ visitedCount = << >>
    /\ isAnimating = FALSE
    /\ timeoutsRef = << >>
    /\ timers = {}
    /\ now = 0
    /\ closure = NotCalled
    /\ visitedSet = {}
    /\ mounted = TRUE
    /\ lastAction = "onMazeSizeChange"
    /\ genInput = NotCalled
    /\ bfsResult = NotCalled
    /\ dfsResult = NotCalled

StubNext ==
    \/ handleSolve
    \/ clearPath
    \/ regenerateMaze
    \/ onMazeSizeChange
    \/ setAlgorithm
    \/ visitedStep
    \/ pathStep
    \/ finalizeStep

StubSpec == StubInit /\ [][StubNext]_vars

\* the generator's result searched by bfs and then by dfs
(***************************************************************************)
(* generatePerfectMaze at the two ends of the clamp of lines 39-40: every  *)
(* pair of sizes within ClampMargin of 5 or of 50, the same random sources *)
(* as the component.                                                       *)
(***************************************************************************)
ClampSizes == ((5 - ClampMargin)..(5 + ClampMargin))
                 \cup ((50 - ClampMargin)..(50 + ClampMargin))

ClampInit ==
    /\ Detached
    /\ genInput \in [mazeRows : ClampSizes, mazeCols : ClampSizes, seed : Seeds]
    /\ grid = << >>
    /\ lastAction = "none"
    /\ bfsResult = NotCalled
    /\ dfsResult = NotCalled

ClampNext == generate
ClampSpec == ClampInit /\ [][ClampNext]_vars

GenNext == generate \/ runBfs \/ runDfs

GenSpec == GenInit /\ [][GenNext]_vars

(***************************************************************************)
(* Properties.  Graph notions used to state them, defined on the grid      *)
(* alone and independently of the program's own search.                    *)
(***************************************************************************)
InGrid(g, r, c) == r \in DOMAIN g /\ c \in DOMAIN g[r]

CellsOfType(g, type) == {p \in Positions(g) : g[p.row][p.col] = type}

\* the cells a walk may use
OpenCells(g) == {p \in Positions(g) : g[p.row][p.col] # "wall"}

Adjacent(p, q) ==
    \/ p.row = q.row /\ (p.col - q.col) \in {-1, 1}
    \/ p.col = q.col /\ (p.row - q.row) \in {-1, 1}

\* the open cells orthogonally adjacent to p
OpenAround(g, p) ==
    {q \in {Pos(p.row - 1, p.col), Pos(p.row + 1, p.col),
             Pos(p.row, p.col - 1), Pos(p.row, p.col + 1)} :
        InGrid(g, q.row, q.col) /\ g[q.row][q.col] # "wall"}

\* one more layer of a flood fill; w = [seen, frontier]
Spread(g, w) ==
    LET next == UNION {OpenAround(g, p) : p \in w.frontier} \ w.seen
    IN  [seen |-> w.seen \cup next, frontier |-> next]

Spread4(g, w) == Spread(g, Spread(g, Spread(g, Spread(g, w))))
Spread16(g, w) == Spread4(g, Spread4(g, Spread4(g, Spread4(g, w))))

RECURSIVE Flood(_, _)
Flood(g, w) == IF w.frontier = {} THEN w.seen ELSE Flood(g, Spread16(g, w))

\* the open cells a walk from p can reach (p itself included)
Component(g, p) == Flood(g, [seen |-> {p}, frontier |-> {p}])

RECURSIVE Layers(_, _, _, _)
Layers(g, w, target, n) ==
    IF target \in w.seen THEN n
    ELSE IF w.frontier = {} THEN 0
    ELSE Layers(g, Spread(g, w), target, n + 1)

\* the number of cells of a shortest walk from p to target, 0 when there
\* is none
ShortestCells(g, p, target) ==
    Layers(g, [seen |-> {p}, frontier |-> {p}], target, 1)

\* the number of pairs of adjacent open cells
OpenEdges(g) ==
    Cardinality({p \in OpenCells(g) : Pos(p.row, p.col + 1) \in OpenCells(g)})
    + Cardinality({p \in OpenCells(g) :
                      Pos(p.row + 1, p.col) \in OpenCells(g)})

\* path is a walk from `from` to `to` over open cells of g
IsWalk(g, path, from, to) ==
    /\ Len(path) >= 1
    /\ path[1] = from
    /\ path[Len(path)] = to
    /\ \A i \in 1..Len(path) :
          /\ InGrid(g, path[i].row, path[i].col)
          /\ g[path[i].row][path[i].col] # "wall"
    /\ \A i \in 1..(Len(path) - 1) : Adjacent(path[i], path[i + 1])

NoRepeats(seq) == \A i, j \in 1..Len(seq) : seq[i] = seq[j] => i = j

Range(seq) == {seq[i] : i \in 1..Len(seq)}

IsResult(res) == res # NotCalled /\ res # MissingEndpoint
HasPath(res) == IsResult(res) /\ "path" \in DOMAIN res

(***************************************************************************)
(* The generator (GenSpec).                                                *)
(***************************************************************************)
Generated == grid # << >>

\* the room counts the generator works with for a requested size
ClampedSize(n) == IF n < 5 THEN 5 ELSE IF n > 50 THEN 50 ELSE n
RoomRows == ClampedSize(genInput.mazeRows)
RoomCols == ClampedSize(genInput.mazeCols)
Rooms == (0..(RoomRows - 1)) \X (0..(RoomCols - 1))

\* grid has the shape the rooms need
RoomShaped ==
    /\ DOMAIN grid = 0..(2 * RoomRows)
    /\ \A r \in DOMAIN grid : DOMAIN grid[r] = 0..(2 * RoomCols)

\* the rooms next to room m whose separating wall has been opened
JoinedRooms(m) ==
    {n \in Rooms :
        /\ (n[1] = m[1] /\ (n[2] - m[2]) \in {-1, 1})
           \/ (n[2] = m[2] /\ (n[1] - m[1]) \in {-1, 1})
        /\ grid[m[1] + n[1] + 1][m[2] + n[2] + 1] # "wall"}

RoomSpread(w) ==
    LET next == UNION {JoinedRooms(m) : m \in w.frontier} \ w.seen
    IN  [seen |-> w.seen \cup next, frontier |-> next]
RoomSpread4(w) == RoomSpread(RoomSpread(RoomSpread(RoomSpread(w))))
RoomSpread16(w) == RoomSpread4(RoomSpread4(RoomSpread4(RoomSpread4(w))))

RECURSIVE RoomFlood(_)
RoomFlood(w) == IF w.frontier = {} THEN w.seen ELSE RoomFlood(RoomSpread16(w))

\* the walls between two rooms that have been opened
OpenedWalls ==
    {p \in Positions(grid) :
        /\ p.row \in 1..(2 * RoomRows - 1) /\ p.col \in 1..(2 * RoomCols - 1)
        /\ (p.row + p.col) % 2 = 1
        /\ grid[p.row][p.col] = "passage"}

\* C1: the maze generatePerfectMaze returns is a spanning tree of the
\* R x C room graph: every room is carved to passage, exactly R*C - 1 of
\* the walls between two rooms are opened, and every room is joined to
\* room (0, 0) through opened walls (so the room graph is connected, and
\* with R*C - 1 edges it has no cycle).
C1_SpanningTree ==
    Generated =>
        /\ RoomShaped
        /\ \A m \in Rooms : grid[2 * m[1] + 1][2 * m[2] + 1] = "passage"
        /\ Cardinality(OpenedWalls) = RoomRows * RoomCols - 1
        /\ RoomFlood([seen |-> {<<0, 0>>}, frontier |-> {<<0, 0>>}]) = Rooms

\* a generated maze in which some room has three opened walls: the carving
\* came back to it and branched
C1_Witness ==
    /\ Generated
    /\ RoomShaped
    /\ \E m \in Rooms : Cardinality(JoinedRooms(m)) >= 3

\* C2: in a generated grid the non-wall cells form a tree that holds start
\* and end, so exactly one simple path joins them; bfs and dfs both find
\* a path, the two paths are the same sequence of cells, and it is a
\* simple path from start to end.
C2_UniquePath ==
    dfsResult # NotCalled =>
        LET start == CHOOSE p \in CellsOfType(grid, "start") : TRUE
            end == CHOOSE p \in CellsOfType(grid, "end") : TRUE
        IN  /\ Cardinality(CellsOfType(grid, "start")) = 1
            /\ Cardinality(CellsOfType(grid, "end")) = 1
            /\ Component(grid, start) = OpenCells(grid)
            /\ OpenEdges(grid) = Cardinality(OpenCells(grid)) - 1
            /\ HasPath(bfsResult)
            /\ HasPath(dfsResult)
            /\ bfsResult.path = dfsResult.path
            /\ IsWalk(grid, bfsResult.path, start, end)
            /\ NoRepeats(bfsResult.path)

\* both searches ran on a generated grid, explored it in different orders
\* and returned the same path
C2_Witness ==
    /\ Generated
    /\ HasPath(bfsResult)
    /\ HasPath(dfsResult)
    /\ bfsResult.path = dfsResult.path
    /\ bfsResult.visitedOrder # dfsResult.visitedOrder
\* C7 as stated: the start cell is at (1, 0) and the end cell at
\* (2*R, 2*C).
C7_AsStated ==
    Generated =>
        /\ InGrid(grid, 1, 0) /\ grid[1][0] = "start"
        /\ InGrid(grid, 2 * RoomRows, 2 * RoomCols)
        /\ grid[2 * RoomRows][2 * RoomCols] = "end"

\* C7, amended: the start cell is at (1, 0) and the end cell at
\* (2*R - 1, 2*C), the opening in the right border beside the last room;
\* no other cell is a start or an end, and (2*R, 2*C), the corner of the
\* border, is a wall.
C7_Endpoints ==
    Generated =>
        /\ InGrid(grid, 2 * RoomRows, 2 * RoomCols)
        /\ CellsOfType(grid, "start") = {Pos(1, 0)}
        /\ CellsOfType(grid, "end") = {Pos(2 * RoomRows - 1, 2 * RoomCols)}
        /\ grid[2 * RoomRows][2 * RoomCols] = "wall"

\* a maze generated for a request below the clamp, its exit beside the
\* last room
C7_Witness ==
    /\ Generated
    /\ genInput.mazeRows < RoomRows
    /\ InGrid(grid, 2 * RoomRows - 1, 2 * RoomCols)
    /\ grid[2 * RoomRows - 1][2 * RoomCols] = "end"
    /\ grid[2 * RoomRows - 1][2 * RoomCols - 1] = "passage"
(***************************************************************************)
(* bfs and dfs (SolveSpec).                                                *)
(***************************************************************************)
\* the last cell of a type in row-major order
LastCell(g, type) ==
    CHOOSE p \in CellsOfType(g, type) :
        \A q \in CellsOfType(g, type) :
            q.row < p.row \/ (q.row = p.row /\ q.col <= p.col)

HasEndpoints == CellsOfType(grid, "start") # {} /\ CellsOfType(grid, "end") # {}
SearchStart == LastCell(grid, "start")
SearchEnd == LastCell(grid, "end")

\* g has a start and an end, and a walk from the one to the other
EndReachableIn(g) ==
    /\ CellsOfType(g, "start") # {}
    /\ CellsOfType(g, "end") # {}
    /\ LastCell(g, "end") \in Component(g, LastCell(g, "start"))

EndReachable == EndReachableIn(grid)

\* C3: when end is reachable from start, the path bfs returns is a walk
\* from start to end with the least possible number of cells, and it has
\* no more cells than the path dfs returns on the same grid.
C3_BfsShortest ==
    /\ (bfsResult # NotCalled /\ EndReachable) =>
          /\ HasPath(bfsResult)
          /\ IsWalk(grid, bfsResult.path, SearchStart, SearchEnd)
          /\ Len(bfsResult.path) = ShortestCells(grid, SearchStart, SearchEnd)
    /\ (dfsResult # NotCalled /\ EndReachable) =>
          /\ HasPath(dfsResult)
          /\ Len(bfsResult.path) <= Len(dfsResult.path)

\* a grid on which the path of bfs is strictly shorter than that of dfs
C3_Witness ==
    /\ HasPath(bfsResult)
    /\ HasPath(dfsResult)
    /\ Len(bfsResult.path) < Len(dfsResult.path)

\* C4: a path returned by bfs or by dfs begins at the start cell, ends at
\* the end cell, moves between orthogonally adjacent cells and holds no
\* wall cell.
C4_PathIsWalk ==
    \A res \in {bfsResult, dfsResult} :
        HasPath(res) => IsWalk(grid, res.path, SearchStart, SearchEnd)

\* dfs returned a path that is not the one bfs found, around a wall
C4_Witness ==
    /\ HasPath(bfsResult)
    /\ HasPath(dfsResult)
    /\ dfsResult.path # bfsResult.path
    /\ Len(dfsResult.path) >= 4
    /\ CellsOfType(grid, "wall") # {}

\* C5: bfs and dfs return no path exactly when end is not reachable from
\* start through non-wall cells, and then visitedOrder lists the cells of
\* start's connected component, each once and no other cell.
C5_AbsentIffUnreachable ==
    \A res \in {bfsResult, dfsResult} :
        IsResult(res) =>
            /\ ~HasPath(res) <=> ~EndReachable
            /\ ~HasPath(res) =>
                  /\ NoRepeats(res.visitedOrder)
                  /\ Range(res.visitedOrder) = Component(grid, SearchStart)

\* both searches gave up on a grid whose end is walled off, after visiting
\* a component of several cells
C5_Witness ==
    /\ IsResult(bfsResult) /\ ~HasPath(bfsResult)
    /\ IsResult(dfsResult) /\ ~HasPath(dfsResult)
    /\ Len(dfsResult.visitedOrder) >= 3
    /\ bfsResult.visitedOrder # dfsResult.visitedOrder

\* C6 as stated: bfs and dfs fail on every grid that does not hold exactly
\* one start cell and exactly one end cell.
C6_AsStated ==
    \A res \in {bfsResult, dfsResult} :
        (/\ res # NotCalled
         /\ ~(/\ Cardinality(CellsOfType(grid, "start")) = 1
              /\ Cardinality(CellsOfType(grid, "end")) = 1))
        => res = MissingEndpoint

\* C6, amended: bfs and dfs fail exactly on the grids without a start cell
\* or without an end cell; with several start or end cells they return a
\* result, searching from the last start cell in row-major order to the
\* last end cell.
C6_FailsWhenMissing ==
    \A res \in {bfsResult, dfsResult} :
        res # NotCalled =>
            /\ res = MissingEndpoint <=> ~HasEndpoints
            /\ IsResult(res) => res.visitedOrder[1] = SearchStart
            /\ HasPath(res) => res.path[Len(res.path)] = SearchEnd

\* dfs returned a path on a grid with two start cells and two end cells
C6_Witness ==
    /\ Cardinality(CellsOfType(grid, "start")) = 2
    /\ Cardinality(CellsOfType(grid, "end")) = 2
    /\ HasPath(dfsResult)
    /\ dfsResult.path[1] = SearchStart
(***************************************************************************)
(* The App component (Spec).                                               *)
(***************************************************************************)
OneStartOneEnd ==
    /\ Cardinality(CellsOfType(grid, "start")) = 1
    /\ Cardinality(CellsOfType(grid, "end")) = 1

\* a step of the playback (visited, path, finalize) or of clearPath, alone
\* or as called by handleSolve
PlaybackOrClear ==
    lastAction' \in {"visitedStep", "pathStep", "finalizeStep", "clearPath",
                     "handleSolve"}

\* C8: in every reachable state the grid holds exactly one start cell and
\* exactly one end cell, and no visited step, path step, finalize step or
\* clearPath changes which cells are the start and the end.
C8_EndpointsKept ==
    /\ []OneStartOneEnd
    /\ [][PlaybackOrClear =>
            /\ CellsOfType(grid', "start") = CellsOfType(grid, "start")
            /\ CellsOfType(grid', "end") = CellsOfType(grid, "end")]_vars

\* a playback ran to its finalize step: the start cell was marked as seen
\* by a visited step, the end cell was on the path drawn, and both kept
\* their type
C8_Witness ==
    /\ lastAction = "finalizeStep"
    /\ OneStartOneEnd
    /\ posKey(LastCell(grid, "start")) \in visitedSet
    /\ posKey(LastCell(grid, "end")) \in DOMAIN closure.keyToIndex
    /\ CellsOfType(grid, "path") # {}

\* C9 as stated: once the teardown cleanup has cleared the recorded timers,
\* no step of the animation fires (the table of pending timers no longer
\* changes) and neither the grid nor isAnimating is written again.
C9_NothingAfterCancel ==
    [][~mounted =>
         /\ timers' = timers
         /\ grid' = grid
         /\ isAnimating' = isAnimating]_vars

\* the external actions that return at once while a playback is running
GuardedHandlers ==
    {"handleSolve", "regenerateMaze", "clearPath", "onMazeSizeChange"}

\* C10: while isAnimating is true, solve, regenerate, clear path and
\* resize leave the grid, the pending timers, isAnimating, the status and
\* both counters as they are.
C10_NoOpWhileAnimating ==
    [][(isAnimating /\ lastAction' \in GuardedHandlers) =>
         /\ grid' = grid
         /\ timers' = timers
         /\ timeoutsRef' = timeoutsRef
         /\ isAnimating' = isAnimating
         /\ status' = status
         /\ pathLength' = pathLength
         /\ visitedCount' = visitedCount
         /\ mazeRows' = mazeRows
         /\ mazeCols' = mazeCols]_vars

\* regenerate was requested during the Finalizing phase (only the finalize
\* timer pending) and the playback is still on
C10_Witness ==
    /\ isAnimating
    /\ lastAction = "regenerateMaze"
    /\ \E t \in timers : t.kind = "finalize"
    /\ CellsOfType(grid, "path") # {}
\* the timer whose callback a step runs: the one that leaves the table
Fired == CHOOSE t \in timers : t \notin timers'

\* a step that runs a timer callback
TimerStep ==
    /\ lastAction' \in {"visitedStep", "pathStep", "finalizeStep"}
    /\ timers' # timers

\* what is pending of a kind, as the set of its indices
PendingOf(pending, kind) == {t.i : t \in {u \in pending : u.kind = kind}}

\* kind, index and due time of every pending timer
Due(pending) == {<< t.kind, t.i, t.at >> : t \in pending}

\* C11: a solve with V cells visited, a path of P cells and base delay d
\* schedules exactly V + P steps, visited step i at i*d and path step i at
\* V*d + i*d; they fire at those times in that order (every visited step
\* before any path step, each phase in index order), and the finalize
\* step is set by the last path step and fires 2*d after it, last.
C11_Schedule ==
    /\ [][(~isAnimating /\ isAnimating') =>
            LET d == closure'.baseDelay
                V == Len(closure'.visitedOrder)
                P == Len(closure'.path)
            IN  /\ Cardinality(timers') = V + P
                /\ Due(timers') =
                      {<< "visited", i, i * d >> : i \in 0..(V - 1)} \cup
                      {<< "path", i, V * d + i * d >> : i \in 0..(P - 1)}]_vars
    /\ [][TimerStep =>
            LET t == Fired
                d == closure.baseDelay
                V == Len(closure.visitedOrder)
                P == Len(closure.path)
            IN  /\ now' = t.at
                /\ t.kind = "visited" =>
                      /\ t.at = t.i * d
                      /\ PendingOf(timers', "visited") = (t.i + 1)..(V - 1)
                      /\ PendingOf(timers', "path") = 0..(P - 1)
                      /\ PendingOf(timers', "finalize") = {}
                /\ t.kind = "path" =>
                      /\ t.at = V * d + t.i * d
                      /\ PendingOf(timers', "visited") = {}
                      /\ PendingOf(timers', "path") = (t.i + 1)..(P - 1)
                      /\ Due(timers') \cap {<< "finalize", 0, t.at + 2 * d >>}
                           = IF t.i = P - 1
                             THEN {<< "finalize", 0, t.at + 2 * d >>} ELSE {}
                      /\ t.i < P - 1 => PendingOf(timers', "finalize") = {}
                /\ t.kind = "finalize" =>
                      /\ t.at = (V + P - 1) * d + 2 * d
                      /\ timers' = {}]_vars

\* a playback at the slow speed ran to its end: the finalize step fired
\* 2*d after the last of V + P steps
C11_Witness ==
    /\ lastAction = "finalizeStep"
    /\ mounted
    /\ closure.baseDelay = 40
    /\ Len(closure.visitedOrder) > Len(closure.path)
    /\ now = (Len(closure.visitedOrder) + Len(closure.path) - 1) * 40 + 80
    /\ timers = {}
\* C12: whenever a visited, path or finalize step is pending isAnimating
\* is true; it becomes true only as a solve starts its playback and false
\* only as the finalize step fires.
C12_AnimatingWhilePending ==
    /\ [](timers # {} => isAnimating)
    /\ [][(~isAnimating /\ isAnimating') => lastAction' = "handleSolve"]_vars
    /\ [][(isAnimating /\ ~isAnimating') => lastAction' = "finalizeStep"]_vars

\* the last path step has fired and the finalize step alone is pending,
\* with isAnimating still true
C12_Witness ==
    /\ isAnimating
    /\ mounted
    /\ lastAction = "pathStep"
    /\ Due(timers) = {<< "finalize", 0, now + 2 * closure.baseDelay >>}
\* the phase of the animator, read off isAnimating and the pending timers
Phase ==
    IF ~isAnimating THEN "Idle"
    ELSE IF PendingOf(timers, "visited") # {} THEN "VisitedPlayback"
    ELSE IF PendingOf(timers, "path") # {} THEN "PathPlayback"
    ELSE IF PendingOf(timers, "finalize") # {} THEN "Finalizing"
    ELSE "Cancelled"

\* C13: an animation that is not cancelled goes from Idle to
\* VisitedPlayback, then to PathPlayback, then to Finalizing and back to
\* Idle, in that order and through no other change of phase, and, every
\* pending timer firing in the end, it does come back to Idle.
C13_PhasesThenIdle ==
    /\ [][(mounted' /\ Phase' # Phase) =>
            << Phase, Phase' >> \in
                {<< "Idle", "VisitedPlayback" >>,
                 << "VisitedPlayback", "PathPlayback" >>,
                 << "PathPlayback", "Finalizing" >>,
                 << "Finalizing", "Idle" >>}]_vars
    /\ (mounted /\ Phase = "VisitedPlayback")
         ~> (~mounted \/ Phase = "PathPlayback")
    /\ (mounted /\ Phase = "PathPlayback")
         ~> (~mounted \/ Phase = "Finalizing")
    /\ (mounted /\ isAnimating) ~> (~mounted \/ Phase = "Idle")

\* a depth-first playback that was not cancelled is over: back to Idle
\* through the finalize step
C13_Witness ==
    /\ mounted
    /\ Phase = "Idle"
    /\ lastAction = "finalizeStep"
    /\ status = "Solved using DFS"
    /\ timers = {}
(***************************************************************************)
(* The component on a grid whose end cannot be reached (StubSpec).         *)
(***************************************************************************)
Requests == {"handleSolve", "regenerateMaze", "clearPath", "onMazeSizeChange"}

\* C14: a solve request on a grid whose end cannot be reached from its
\* start ends normally: the status becomes "No path found", the visited
\* count is reported, no step is scheduled and isAnimating stays false;
\* the next solve, regenerate, clear or resize request is carried out.
C14_NoPathIsNormal ==
    /\ [][(/\ lastAction' = "handleSolve"
            /\ ~isAnimating
            /\ HasEndpoints
            /\ ~EndReachable) =>
            /\ status' = "No path found"
            /\ timers' = {}
            /\ timeoutsRef' = << >>
            /\ ~isAnimating'
            /\ pathLength' = << >>
            /\ visitedCount' =
                  << Cardinality(Component(grid, SearchStart)) >>]_vars
    /\ [](status = "No path found" => (~isAnimating /\ timers = {}))
    /\ [][(status = "No path found" /\ lastAction' \in Requests) =>
            /\ lastAction' = "handleSolve" =>
                  /\ status' \in {"No path found", "Solving maze..."}
                  /\ visitedCount' # << >>
                  /\ grid' = clearedGrid(grid)
            /\ lastAction' = "clearPath" =>
                  /\ status' = "Cleared path"
                  /\ visitedCount' = << >>
            /\ lastAction' = "regenerateMaze" =>
                  /\ status' = "New maze generated"
                  /\ visitedCount' = << >>
                  /\ EndReachableIn(grid')
            /\ lastAction' = "onMazeSizeChange" =>
                  /\ status' = "Maze size changed"
                  /\ visitedCount' = << >>
                  /\ EndReachableIn(grid')]_vars

\* a solve request has just ended with "No path found" on a grid whose
\* end is walled in, after visiting several cells
C14_Witness ==
    /\ lastAction = "handleSolve"
    /\ status = "No path found"
    /\ HasEndpoints
    /\ ~EndReachable
    /\ visitedCount = << Cardinality(Component(grid, SearchStart)) >>
    /\ Cardinality(Component(grid, SearchStart)) >= 3
    /\ ~isAnimating
    /\ timers = {}

(***************************************************************************)
(* The searches on grids that carry the marks of an earlier animation.     *)
(***************************************************************************)
Marks == {"visited", "path", "pathHead"}
Marked(g) == {p \in Positions(g) : g[p.row][p.col] \in Marks}

\* the search the component ran on its snapshot (lines 351-353)
solverOf(name, g) == IF name = "bfs" THEN bfs(g) ELSE dfs(g)

\* C15: bfs and dfs depend on the walls and on the start and end cells
\* only: on the grid of every reachable state, whatever visited, path and
\* pathHead cells it carries, each returns what it returns on the same
\* grid with those cells reset to passage; and the path and visitedOrder
\* an animation plays, computed from the snapshot of the solve request,
\* are those of a second run on the grid as it is now and as reset.
C15_MarksIgnored ==
    /\ bfs(grid) = bfs(clearedGrid(grid))
    /\ dfs(grid) = dfs(clearedGrid(grid))
    /\ isAnimating =>
          LET again == solverOf(closure.algorithm, grid)
          IN  /\ again.path = closure.path
              /\ again.visitedOrder = closure.visitedOrder

\* an idle component whose grid still shows the visited and path cells of
\* a finished animation, and on which the search finds the same path
C15_Witness ==
    /\ mounted
    /\ ~isAnimating
    /\ lastAction = "finalizeStep"
    /\ \E p \in Marked(grid) : grid[p.row][p.col] = "visited"
    /\ \E p \in Marked(grid) : grid[p.row][p.col] = "path"
    /\ "path" \in DOMAIN bfs(grid)
    /\ bfs(grid).path = bfs(clearedGrid(grid)).path

(***************************************************************************)
(* The size of the generated grid (ClampSpec).                             *)
(***************************************************************************)
CellTypes == {"wall", "passage", "start", "end", "visited", "path", "pathHead"}

\* C16: generatePerfectMaze(rows, cols) returns, for sizes below 5, from 5
\* to 50 and above 50 alike, a grid of 2R+1 rows of 2C+1 cells each, where
\* R = min(50, max(5, rows)) and C = min(50, max(5, cols)).
C16_GridSize ==
    Generated =>
       LET R == IF genInput.mazeRows < 5 THEN 5
                ELSE IF genInput.mazeRows > 50 THEN 50 ELSE genInput.mazeRows
           C == IF genInput.mazeCols < 5 THEN 5
                ELSE IF genInput.mazeCols > 50 THEN 50 ELSE genInput.mazeCols
       IN  /\ DOMAIN grid = 0..(2 * R)
           /\ \A r \in DOMAIN grid :
                 /\ DOMAIN grid[r] = 0..(2 * C)
                 /\ \A c \in DOMAIN grid[r] : grid[r][c] \in CellTypes

\* a grid of 101 rows and 11 columns generated for the sizes (51, 4)
C16_Witness ==
    /\ Generated
    /\ genInput.mazeRows = 51
    /\ genInput.mazeCols = 4
    /\ DOMAIN grid = 0..100
    /\ DOMAIN grid[100] = 0..10
    /\ grid[99][10] = "end"

(***************************************************************************)
(* The cells of the path while it is drawn (Spec).                         *)
(***************************************************************************)
\* the indices of the path whose cell is neither the start nor the end
InnerIndices ==
    {j \in 0..(Len(closure.path) - 1) :
        grid[closure.path[j + 1].row][closure.path[j + 1].col]
            \notin {"start", "end"}}

\* the type of the cell at index j of the path, in grid g
TypeAt(g, j) == g[closure.path[j + 1].row][closure.path[j + 1].col]

\* C17: right after path step i fires, among the path cells that are
\* neither start nor end, the cell at index i is pathHead, the cells at
\* the indices below i are path and the cells at the indices above i have
\* the type they had before the step; and in every reachable state at most
\* one cell of the grid is pathHead.
C17_OneHead ==
    /\ [][(lastAction' = "pathStep" /\ timers' # timers) =>
            \A j \in InnerIndices :
               /\ j = Fired.i => TypeAt(grid', j) = "pathHead"
               /\ j < Fired.i => TypeAt(grid', j) = "path"
               /\ j > Fired.i => TypeAt(grid', j) = TypeAt(grid, j)]_vars
    /\ [](Cardinality(CellsOfType(grid, "pathHead")) <= 1)

\* path step 3 has just fired: the head is at index 3, the trail behind
\* it, and a visited cell of the path lies ahead
C17_Witness ==
    /\ lastAction = "pathStep"
    /\ isAnimating
    /\ Len(closure.path) > 6
    /\ TypeAt(grid, 3) = "pathHead"
    /\ TypeAt(grid, 2) = "path"
    /\ TypeAt(grid, 1) = "path"
    /\ TypeAt(grid, 4) = "visited"
    /\ Cardinality(CellsOfType(grid, "pathHead")) = 1

(***************************************************************************)
(* The order in which a cell changes type during an animation (Spec).      *)
(***************************************************************************)
\* C18: in every step taken while an animation runs, its finalize step
\* included, no cell that is path or pathHead becomes visited or passage,
\* no cell that is visited becomes passage, no cell becomes wall and no
\* wall becomes anything else.
C18_ForwardOnly ==
    [][isAnimating =>
         \A p \in Positions(grid) :
            LET old == grid[p.row][p.col]
                new == grid'[p.row][p.col]
            IN  /\ old \in {"path", "pathHead"} =>
                      new \notin {"visited", "passage"}
                /\ old = "visited" => new # "passage"
                /\ (old = "wall") <=> (new = "wall")]_vars

\* in the middle of the path playback: cells of every type are on the
\* grid, among them a passage the search never visited
C18_Witness ==
    /\ isAnimating
    /\ mounted
    /\ lastAction = "pathStep"
    /\ \A type \in {"wall", "passage", "visited", "path", "pathHead"} :
          CellsOfType(grid, type) # {}
    /\ Due(timers) # {}
    /\ \A t \in timers : t.kind = "path"

(***************************************************************************)
(* The grid a finished animation leaves (Spec).                            *)
(***************************************************************************)
\* the positions of the played path and of the played search that are
\* neither the start nor the end
InnerOf(seq) ==
    {p \in Range(seq) : grid[p.row][p.col] \notin {"start", "end"}}

\* C19: when the finalize step of an animation that was not cancelled has
\* fired, no cell is pathHead, the cells of the path other than start and
\* end are path, the cells of visitedOrder that are neither on the path
\* nor start or end are visited, and every other cell is as in the
\* pristine grid: wall, passage, start or end.
C19_FinishedGrid ==
    (lastAction = "finalizeStep" /\ mounted) =>
       /\ CellsOfType(grid, "pathHead") = {}
       /\ CellsOfType(grid, "path") = InnerOf(closure.path)
       /\ CellsOfType(grid, "visited") =
             InnerOf(closure.visitedOrder) \ InnerOf(closure.path)
       /\ ~isAnimating
       /\ timers = {}

\* a bfs animation has finished on a maze where dfs visits cells that bfs
\* does not: a dfs animation played before it would have marked them
C19_Witness ==
    /\ lastAction = "finalizeStep"
    /\ mounted
    /\ closure.algorithm = "bfs"
    /\ status = "Solved using BFS"
    /\ CellsOfType(grid, "visited") # {}
    /\ \E p \in Range(dfs(grid).visitedOrder) :
          grid[p.row][p.col] = "passage"

(***************************************************************************)
(* The path within the order of the visit (SolveSpec).                     *)
(***************************************************************************)
\* the first index at which x stands in seq, 0 when it stands nowhere
FirstAt(seq, x) ==
    IF x \notin Range(seq) THEN 0
    ELSE CHOOSE i \in 1..Len(seq) :
            seq[i] = x /\ \A j \in 1..(i - 1) : seq[j] # x

\* C20: when bfs or dfs returns a path, every cell of the path is in
\* visitedOrder, every cell of the path but the first comes later in
\* visitedOrder than the cell before it on the path, and visitedOrder
\* begins with the start cell and ends with the end cell.
C20_PathInVisitOrder ==
    \A res \in {bfsResult, dfsResult} :
        HasPath(res) =>
            /\ Range(res.path) \subseteq Range(res.visitedOrder)
            /\ \A i \in 2..Len(res.path) :
                  FirstAt(res.visitedOrder, res.path[i - 1])
                      < FirstAt(res.visitedOrder, res.path[i])
            /\ res.visitedOrder[1] = SearchStart
            /\ res.path[1] = SearchStart
            /\ res.visitedOrder[Len(res.visitedOrder)] = SearchEnd
            /\ res.path[Len(res.path)] = SearchEnd

\* both searches returned a path after visiting cells that are not on
\* it, and dfs went another way than bfs
C20_Witness ==
    /\ HasPath(bfsResult)
    /\ HasPath(dfsResult)
    /\ Len(bfsResult.visitedOrder) > Len(bfsResult.path)
    /\ Len(dfsResult.visitedOrder) > Len(dfsResult.path)
    /\ Len(dfsResult.path) > Len(bfsResult.path) + 1
    /\ FirstAt(dfsResult.visitedOrder, SearchEnd) = Len(dfsResult.visitedOrder)

(***************************************************************************)
(* The order in which dfs visits (SolveSpec).                              *)
(***************************************************************************)
\* the non-wall cells around p, in the order up, down, left, right
AroundInOrder(g, p) ==
    LET around == << Pos(p.row - 1, p.col), Pos(p.row + 1, p.col),
                     Pos(p.row, p.col - 1), Pos(p.row, p.col + 1) >>
        open(n) == n \in Positions(g) /\ g[n.row][n.col] # "wall"
    IN  SelectSeq(around, open)

\* the cells around visitedOrder[k] not yet visited when it is visited, in
\* the order up, down, left, right
StillUnvisited(g, visitedOrder, k) ==
    LET before == {visitedOrder[j] : j \in 1..k}
        fresh(n) == n \notin before
    IN  SelectSeq(AroundInOrder(g, visitedOrder[k]), fresh)

\* C21: in the visitedOrder of dfs, a cell that is not the end and has a
\* non-wall neighbour not visited before it is followed by the first such
\* neighbour in the order up, down, left, right; and no cell stands in
\* visitedOrder twice.
C21_DfsForwardOrder ==
    IsResult(dfsResult) =>
       LET order == dfsResult.visitedOrder
       IN  /\ NoRepeats(order)
           /\ \A k \in 1..Len(order) :
                 (/\ order[k] # SearchEnd
                  /\ StillUnvisited(grid, order, k) # << >>) =>
                     /\ k < Len(order)
                     /\ order[k + 1] = StillUnvisited(grid, order, k)[1]

\* dfs chose among several unvisited neighbours at one cell, and at
\* another, a dead end, went on with a cell pushed earlier
C21_Witness ==
    /\ IsResult(dfsResult)
    /\ NoRepeats(dfsResult.visitedOrder)
    /\ \E k \in 1..(Len(dfsResult.visitedOrder) - 1) :
          /\ dfsResult.visitedOrder[k] # SearchEnd
          /\ Len(StillUnvisited(grid, dfsResult.visitedOrder, k)) >= 2
          /\ dfsResult.visitedOrder[k + 1] =
                StillUnvisited(grid, dfsResult.visitedOrder, k)[1]
    /\ \E k \in 1..(Len(dfsResult.visitedOrder) - 1) :
          /\ StillUnvisited(grid, dfsResult.visitedOrder, k) = << >>
          /\ ~Adjacent(dfsResult.visitedOrder[k],
                       dfsResult.visitedOrder[k + 1])

=============================================================================
